---------------------------- MODULE Spec2Model ----------------------------
(***************************************************************************)
(* Model of src/main.py: a FastAPI service keeping the table "usuarios" in *)
(* PostgreSQL.  The state is the table (a set of rows), its SERIAL         *)
(* sequence, the columns the table has, the requests that are between two  *)
(* data-access scopes, and the outcome and data-access scope of the last   *)
(* handler step.  Every "with Database()" block is one transaction scope   *)
(* and one step; the framework takes a handler's outcome before the next   *)
(* handler step is observed.                                               *)
(***************************************************************************)
EXTENDS Integers, Sequences, FiniteSets, TLC

VARIABLES
    colunas,    \* columns of the table usuarios
    usuarios,   \* committed rows of the table
    id_seq,     \* last value of the SERIAL sequence of usuarios.id
    em_curso,   \* per client: the request between its two scopes
    resposta,   \* the outcome a handler produced (for a list, with the query
                \* parameters asked), until the framework takes it
    escopo,     \* the last data-access scope: the store's condition during
                \* it, the exception, commit/rollback/close, ORDER BY column
    roteiro     \* the outcomes of the end-to-end scenario, in order

vars == <<colunas, usuarios, id_seq, em_curso, resposta, escopo, roteiro>>

(* Largest id the sequence hands out in the model. *)
MaxId == 2

Clientes == {"c1", "c2"}

(* Optional[...] values: None is the empty tuple, a value v is <<v>>. *)
None == <<>>

Some(v) == <<v>>

(***************************************************************************)
(* Text values are tuples of characters.                                   *)
(***************************************************************************)
Ana == <<"A", "n">>

ana == <<"a", "n", "a">>

Pedro == <<"P">>

EmailA == <<"a", "@">>

EmailB == <<"b", "@">>

(* UsuarioCreate bodies the clients send: ativo is any int. *)
Entradas ==
    { [nome |-> Ana,   email |-> EmailB, ativo |-> 1],
      [nome |-> ana,   email |-> EmailA, ativo |-> 0],
      [nome |-> Pedro, email |-> EmailA, ativo |-> 2] }

(* No body: the request has none. *)
SemEntrada == [nome |-> <<>>, email |-> <<>>, ativo |-> 0]

(* Query parameters of GET /usuarios. *)
FiltrosAtivo == {None, Some(-1), Some(0), Some(1)}

FiltrosNome == {None, Some(<<>>), Some(<<"a", "n">>)}

Ordenadores == {None, Some("id"), Some("nome"), Some("email"), Some("senha; DROP TABLE usuarios")}

(* Where the store can fail inside a data-access scope. *)
Falhas == {"nenhuma", "connect", "execute", "fetch"}

(***************************************************************************)
(* Text comparison and ILIKE as PostgreSQL evaluates them.                 *)
(***************************************************************************)
Cod(c) ==
    CASE c = "@" -> 64
      [] c = "A" -> 65
      [] c = "P" -> 80
      [] c = "a" -> 97
      [] c = "b" -> 98
      [] c = "n" -> 110
      [] OTHER   -> 0

Lower(c) ==
    CASE c = "A" -> "a"
      [] c = "P" -> "p"
      [] OTHER   -> c

RECURSIVE TextoMenor(_, _)
TextoMenor(a, b) ==
    IF b = <<>> THEN FALSE
    ELSE IF a = <<>> THEN TRUE
    ELSE IF Cod(Head(a)) # Cod(Head(b)) THEN Cod(Head(a)) < Cod(Head(b))
    ELSE TextoMenor(Tail(a), Tail(b))

(* text ILIKE pattern: "%" matches any run, "_" any one character. *)
RECURSIVE ILike(_, _)
ILike(texto, padrao) ==
    IF padrao = <<>> THEN texto = <<>>
    ELSE IF Head(padrao) = "%"
         THEN \/ ILike(texto, Tail(padrao))
              \/ texto # <<>> /\ ILike(Tail(texto), padrao)
    ELSE /\ texto # <<>>
         /\ \/ Head(padrao) = "_"
            \/ Lower(Head(padrao)) = Lower(Head(texto))
         /\ ILike(Tail(texto), Tail(padrao))

(***************************************************************************)
(* The table created at import, and the columns a statement needs.         *)
(***************************************************************************)
ColunasCriadas == {"id", "nome", "email"}

ColunasModelo == {"id", "nome", "email", "ativo"}

(* CREATE TABLE IF NOT EXISTS: a table that exists keeps its columns. *)
criar_tabela(existentes) ==
    IF existentes = {} THEN ColunasCriadas ELSE existentes

(***************************************************************************)
(* Database.__exit__: commit when no exception leaves the body, rollback   *)
(* otherwise, then close.  antes is the committed table, pendente the      *)
(* table as the transaction sees it.                                       *)
(***************************************************************************)
Database_exit_sempre_commit(exc_type, antes, pendente) ==
    [tabela |-> pendente, eventos |-> <<"commit", "close">>]

Database_exit(exc_type, antes, pendente) ==
    IF exc_type = "None"
    THEN [tabela |-> pendente, eventos |-> <<"commit", "close">>]
    ELSE [tabela |-> antes, eventos |-> <<"rollback", "close">>]

(***************************************************************************)
(* One statement run by cursor.execute under a store condition.  The       *)
(* result is the exception raised ("None" when none), the rows fetched and *)
(* the table as the transaction sees it afterwards.  A statement naming a  *)
(* column the table lacks is rejected; "execute" fails before the          *)
(* statement takes effect, "fetch" after it did.                           *)
(***************************************************************************)
Executar(falha, cols, tabela, usadas, linhas, depois) ==
    IF ~(usadas \subseteq cols) \/ falha = "execute"
    THEN [exc |-> "psycopg.Error", linhas |-> <<>>, tabela |-> tabela]
    ELSE IF falha = "fetch"
    THEN [exc |-> "psycopg.Error", linhas |-> <<>>, tabela |-> depois]
    ELSE [exc |-> "None", linhas |-> linhas, tabela |-> depois]

(* "with Database() as cursor: return <statement>": the whole scope. *)
ComDatabase(falha, antes, r) ==
    IF falha = "connect"
    THEN [exc |-> "psycopg.Error", linhas |-> <<>>, tabela |-> antes, eventos |-> <<>>]
    ELSE [exc |-> r.exc, linhas |-> r.linhas,
          tabela |-> Database_exit(r.exc, antes, r.tabela).tabela,
          eventos |-> Database_exit(r.exc, antes, r.tabela).eventos]

(***************************************************************************)
(* UsuarioCRUD: each method is one data-access scope.                      *)
(***************************************************************************)
Ids(tabela) == {r.id : r \in tabela}

Linha(id, u) == [id |-> id, nome |-> u.nome, email |-> u.email, ativo |-> u.ativo]

(* INSERT INTO usuarios(nome, email, ativo) VALUES (...) RETURNING *       *)
(* id comes from the SERIAL sequence; PRIMARY KEY rejects a duplicate.     *)
criar(falha, cols, tabela, seq, usuario) ==
    LET novo   == Linha(seq + 1, usuario)
        aceito == {"nome", "email", "ativo"} \subseteq cols /\ falha # "execute"
        r      == IF aceito /\ novo.id \in Ids(tabela)
                  THEN [exc |-> "psycopg.Error", linhas |-> <<>>, tabela |-> tabela]
                  ELSE Executar(falha, cols, tabela, {"nome", "email", "ativo"},
                                <<novo>>, tabela \cup {novo})
    IN  [res |-> ComDatabase(falha, tabela, r),
         seq |-> IF aceito /\ falha # "connect" THEN seq + 1 ELSE seq]

colunas_permitidas == {"id", "nome", "email"}

(* ordenador if ordenador in colunas_permitidas else "id" *)
ordenador_sem_lista(ordenador) ==
    IF ordenador # None THEN ordenador[1] ELSE "id"

ordenador_validado(ordenador) ==
    IF ordenador # None /\ ordenador[1] \in colunas_permitidas THEN ordenador[1] ELSE "id"

(* The WHERE clause built from the two optional filters. *)
Where_sem_sentinela(tabela, ativo, nome) ==
    { r \in tabela :
        /\ ativo # None => r.ativo = ativo[1]
        /\ (nome # None /\ nome[1] # <<>>) => ILike(r.nome, <<"%">> \o nome[1] \o <<"%">>) }

Where(tabela, ativo, nome) ==
    { r \in tabela :
        /\ (ativo # None /\ ativo[1] # -1) => r.ativo = ativo[1]
        /\ (nome # None /\ nome[1] # <<>>) => ILike(r.nome, <<"%">> \o nome[1] \o <<"%">>) }

ColunasWhere(ativo, nome) ==
    (IF ativo # None /\ ativo[1] # -1 THEN {"ativo"} ELSE {})
        \cup (IF nome # None /\ nome[1] # <<>> THEN {"nome"} ELSE {})

Menor(col, r1, r2) ==
    IF col = "nome" THEN TextoMenor(r1.nome, r2.nome)
    ELSE IF col = "email" THEN TextoMenor(r1.email, r2.email)
    ELSE r1.id < r2.id

(* The orders in which the store can return a set of rows. *)
Arranjos(linhas) ==
    { s \in [1..Cardinality(linhas) -> linhas] :
        \A i, j \in DOMAIN s : i # j => s[i] # s[j] }

(* ORDER BY col ASC: every arrangement of the rows with no inversion;      *)
(* rows with equal keys come in an order the store picks.                  *)
OrderBy(linhas, col) ==
    { s \in Arranjos(linhas) : \A i, j \in DOMAIN s : i < j => ~Menor(col, s[j], s[i]) }

(* SELECT * FROM usuarios [WHERE ...] ORDER BY <col> ASC: the possible     *)
(* outcomes of the scope, each with the column placed in the statement.    *)
listar_com_filtro(falha, cols, tabela, ativo, nome, ordenador) ==
    LET col == ordenador_validado(ordenador)
    IN  { [res   |-> ComDatabase(falha, tabela,
                        Executar(falha, cols, tabela,
                                 ColunasWhere(ativo, nome) \cup {col}, s, tabela)),
           ordem |-> col] : s \in OrderBy(Where(tabela, ativo, nome), col) }

(* UPDATE usuarios SET nome, email, ativo WHERE id = %s RETURNING * *)
atualizar_sem_ativo(falha, cols, tabela, usuario_id, usuario) ==
    LET alvo   == {r \in tabela : r.id = usuario_id}
        nova(r) == [r EXCEPT !.nome = usuario.nome, !.email = usuario.email]
        depois == (tabela \ alvo) \cup {nova(r) : r \in alvo}
    IN  ComDatabase(falha, tabela,
            Executar(falha, cols, tabela, {"id", "nome", "email"},
                     IF alvo = {} THEN <<>> ELSE <<nova(CHOOSE r \in alvo : TRUE)>>, depois))

atualizar_so_ativos(falha, cols, tabela, usuario_id, usuario) ==
    LET alvo   == {r \in tabela : r.id = usuario_id /\ r.ativo = 1}
        depois == (tabela \ alvo) \cup {Linha(r.id, usuario) : r \in alvo}
        linhas == IF alvo = {} THEN <<>> ELSE <<Linha(usuario_id, usuario)>>
    IN  ComDatabase(falha, tabela,
            Executar(falha, cols, tabela, {"id", "nome", "email", "ativo"}, linhas, depois))

atualizar(falha, cols, tabela, usuario_id, usuario) ==
    LET alvo   == {r \in tabela : r.id = usuario_id}
        depois == (tabela \ alvo) \cup {Linha(r.id, usuario) : r \in alvo}
        linhas == IF alvo = {} THEN <<>> ELSE <<Linha(usuario_id, usuario)>>
    IN  ComDatabase(falha, tabela,
            Executar(falha, cols, tabela, {"id", "nome", "email", "ativo"}, linhas, depois))

(* SELECT * FROM usuarios WHERE id = %s: the possible outcomes. *)
buscar_por_id_sem_where(falha, cols, tabela, usuario_id) ==
    { ComDatabase(falha, tabela, Executar(falha, cols, tabela, {"id"}, s, tabela))
        : s \in Arranjos(tabela) }

buscar_por_id(falha, cols, tabela, usuario_id) ==
    LET alvo == {r \in tabela : r.id = usuario_id}
    IN  { ComDatabase(falha, tabela, Executar(falha, cols, tabela, {"id"}, s, tabela))
            : s \in Arranjos(alvo) }

(* UPDATE usuarios SET ativo = 0 WHERE id = %s AND ativo = 1 *)
deletar_fisico(falha, cols, tabela, usuario_id) ==
    LET alvo == {r \in tabela : r.id = usuario_id}
    IN  ComDatabase(falha, tabela,
            Executar(falha, cols, tabela, {"id", "ativo"}, <<>>, tabela \ alvo))

deletar(falha, cols, tabela, usuario_id) ==
    LET alvo   == {r \in tabela : r.id = usuario_id /\ r.ativo = 1}
        depois == (tabela \ alvo) \cup {[r EXCEPT !.ativo = 0] : r \in alvo}
    IN  ComDatabase(falha, tabela,
            Executar(falha, cols, tabela, {"id", "ativo"}, <<>>, depois))

(***************************************************************************)
(* Outcomes of the handlers.                                               *)
(***************************************************************************)
HTTP_200_OK == 200

HTTP_201_CREATED == 201

HTTP_204_NO_CONTENT == 204

HTTP_400_BAD_REQUEST == 400

HTTP_404_NOT_FOUND == 404

HTTP_500_INTERNAL_SERVER_ERROR == 500

(* No HTTPException and no return value: the exception leaves the handler. *)
ExcecaoNaoTratada == 0

Resposta(op, id, status, detalhe, corpo) ==
    [op |-> op, id |-> id, status |-> status, detalhe |-> detalhe, corpo |-> corpo,
     pedido |-> <<>>]

Escopo(falha, res, ordem) ==
    [falha |-> falha, exc |-> res.exc, eventos |-> res.eventos, ordem |-> ordem]

Livre == [op |-> "livre", id |-> 0, entrada |-> SemEntrada]

SemResposta == Resposta("nenhuma", 0, ExcecaoNaoTratada, "", <<>>)

SemEscopo == [falha |-> "nenhuma", exc |-> "None", eventos |-> <<>>, ordem |-> ""]

Init ==
    /\ colunas \in {criar_tabela({}), criar_tabela(ColunasModelo)}
    /\ usuarios = {}
    /\ id_seq = 0
    /\ em_curso = [c \in Clientes |-> Livre]
    /\ resposta = SemResposta
    /\ escopo = SemEscopo
    /\ roteiro = <<>>

(* POST /usuarios *)
criar_usuario(usuario, falha) ==
    /\ resposta = SemResposta
    /\ id_seq < MaxId
    /\ LET o == criar(falha, colunas, usuarios, id_seq, usuario)
       IN  /\ usuarios' = o.res.tabela
           /\ id_seq' = o.seq
           /\ escopo' = Escopo(falha, o.res, "")
           /\ resposta' =
                IF o.res.exc = "None"
                THEN Resposta("criar", o.res.linhas[1].id, HTTP_201_CREATED, "", o.res.linhas)
                ELSE Resposta("criar", 0, HTTP_400_BAD_REQUEST, "Erro ao criar usuario", <<>>)
    /\ UNCHANGED <<colunas, em_curso>>

(* GET /usuarios *)
listar_usuarios(ativo, nome, ordenador, falha) ==
    /\ resposta = SemResposta
    /\ \E o \in listar_com_filtro(falha, colunas, usuarios, ativo, nome, ordenador) :
           /\ usuarios' = o.res.tabela
           /\ escopo' = Escopo(falha, o.res, o.ordem)
           /\ resposta' =
                [(IF o.res.exc = "None"
                  THEN Resposta("listar", 0, HTTP_200_OK, "", o.res.linhas)
                  ELSE Resposta("listar", 0, ExcecaoNaoTratada, o.res.exc, <<>>))
                 EXCEPT !.pedido = <<ativo, nome, ordenador>>]
    /\ UNCHANGED <<colunas, id_seq, em_curso>>

(* PATCH /usuarios/{usuario_id}: the existence check. *)
atualizar_usuario_buscar(c, usuario_id, usuario, falha) ==
    /\ resposta = SemResposta
    /\ em_curso[c].op = "livre"
    /\ \E o \in buscar_por_id(falha, colunas, usuarios, usuario_id) :
           /\ usuarios' = o.tabela
           /\ escopo' = Escopo(falha, o, "")
           /\ IF o.exc # "None"
              THEN /\ resposta' = Resposta("atualizar", usuario_id,
                                           HTTP_500_INTERNAL_SERVER_ERROR,
                                           "Erro ao atualizar usuario", <<>>)
                   /\ UNCHANGED em_curso
              ELSE IF o.linhas = <<>>
              THEN /\ resposta' = Resposta("atualizar", usuario_id, HTTP_404_NOT_FOUND,
                                           "Usuario nao encontrado", <<>>)
                   /\ UNCHANGED em_curso
              ELSE /\ em_curso' = [em_curso EXCEPT ![c] =
                            [op |-> "atualizar", id |-> usuario_id, entrada |-> usuario]]
                   /\ UNCHANGED resposta
    /\ UNCHANGED <<colunas, id_seq>>

(* PATCH /usuarios/{usuario_id}: the UPDATE and the check of its row. *)
atualizar_usuario_atualizar(c, falha) ==
    /\ resposta = SemResposta
    /\ em_curso[c].op = "atualizar"
    /\ LET id == em_curso[c].id
           o  == atualizar(falha, colunas, usuarios, id, em_curso[c].entrada)
       IN  /\ usuarios' = o.tabela
           /\ escopo' = Escopo(falha, o, "")
           /\ resposta' =
                IF o.exc # "None"
                THEN Resposta("atualizar", id, HTTP_500_INTERNAL_SERVER_ERROR,
                              "Erro ao atualizar usuario", <<>>)
                ELSE IF o.linhas = <<>>
                THEN Resposta("atualizar", id, HTTP_500_INTERNAL_SERVER_ERROR,
                              "Falha ao atualizar usuario no banco de dados", <<>>)
                ELSE Resposta("atualizar", id, HTTP_200_OK, "", o.linhas)
    /\ em_curso' = [em_curso EXCEPT ![c] = Livre]
    /\ UNCHANGED <<colunas, id_seq>>

(* DELETE /usuarios/{usuario_id}: the existence check. *)
deletar_usuario_buscar(c, usuario_id, falha) ==
    /\ resposta = SemResposta
    /\ em_curso[c].op = "livre"
    /\ \E o \in buscar_por_id(falha, colunas, usuarios, usuario_id) :
           /\ usuarios' = o.tabela
           /\ escopo' = Escopo(falha, o, "")
           /\ IF o.exc # "None"
              THEN /\ resposta' = Resposta("deletar", usuario_id, ExcecaoNaoTratada,
                                           o.exc, <<>>)
                   /\ UNCHANGED em_curso
              ELSE IF o.linhas = <<>>
              THEN /\ resposta' = Resposta("deletar", usuario_id, HTTP_404_NOT_FOUND,
                                           "Usuario nao encontrado ou ja inativo", <<>>)
                   /\ UNCHANGED em_curso
              ELSE /\ em_curso' = [em_curso EXCEPT ![c] =
                            [op |-> "deletar", id |-> usuario_id, entrada |-> SemEntrada]]
                   /\ UNCHANGED resposta
    /\ UNCHANGED <<colunas, id_seq>>

(* DELETE /usuarios/{usuario_id}: the soft delete and the 204. *)
deletar_usuario_deletar(c, falha) ==
    /\ resposta = SemResposta
    /\ em_curso[c].op = "deletar"
    /\ LET id == em_curso[c].id
           o  == deletar(falha, colunas, usuarios, id)
       IN  /\ usuarios' = o.tabela
           /\ escopo' = Escopo(falha, o, "")
           /\ resposta' =
                IF o.exc # "None"
                THEN Resposta("deletar", id, ExcecaoNaoTratada, o.exc, <<>>)
                ELSE Resposta("deletar", id, HTTP_204_NO_CONTENT, "", <<>>)
    /\ em_curso' = [em_curso EXCEPT ![c] = Livre]
    /\ UNCHANGED <<colunas, id_seq>>

(* The framework takes the handler's outcome and answers the client; the  *)
(* handler's Database object is gone with it.                             *)
entregar ==
    /\ resposta # SemResposta
    /\ resposta' = SemResposta
    /\ escopo' = SemEscopo
    /\ UNCHANGED <<colunas, usuarios, id_seq, em_curso>>

(* The requests of the given clients, a list drawing its name filter and  *)
(* sort key from the given sets.                                          *)
Pedidos(clientes, nomes, ordenadores) ==
    \/ \E u \in Entradas, f \in Falhas :
          criar_usuario(u, f) /\ UNCHANGED roteiro
    \/ \E a \in FiltrosAtivo, n \in nomes, o \in ordenadores, f \in Falhas :
          listar_usuarios(a, n, o, f) /\ UNCHANGED roteiro
    \/ \E c \in clientes, id \in 1..MaxId, u \in Entradas, f \in Falhas :
          atualizar_usuario_buscar(c, id, u, f) /\ UNCHANGED roteiro
    \/ \E c \in clientes, f \in Falhas :
          atualizar_usuario_atualizar(c, f) /\ UNCHANGED roteiro
    \/ \E c \in clientes, id \in 1..MaxId, f \in Falhas :
          deletar_usuario_buscar(c, id, f) /\ UNCHANGED roteiro
    \/ \E c \in clientes, f \in Falhas :
          deletar_usuario_deletar(c, f) /\ UNCHANGED roteiro
    \/ entregar /\ UNCHANGED roteiro

(* Concurrent requests of two clients; lists filter by the active flag. *)
Next == Pedidos(Clientes, {None}, {None})

Spec == Init /\ [][Next]_vars

(***************************************************************************)
(* The end-to-end scenario: one client sends create A (ativo = 1),         *)
(* create B (ativo = 0), list(ativo = 1), delete(A.id), list(ativo = 1),   *)
(* list(ativo unset), each after the answer to the one before; roteiro     *)
(* keeps the answers.                                                      *)
(***************************************************************************)
NextRoteiro ==
    \/ /\ Len(roteiro) = 0
       /\ \E u \in Entradas, f \in Falhas : u.ativo = 1 /\ criar_usuario(u, f)
       /\ UNCHANGED roteiro
    \/ /\ Len(roteiro) = 1
       /\ \E u \in Entradas, f \in Falhas : u.ativo = 0 /\ criar_usuario(u, f)
       /\ UNCHANGED roteiro
    \/ /\ Len(roteiro) \in {2, 4}
       /\ \E o \in Ordenadores, f \in Falhas : listar_usuarios(Some(1), None, o, f)
       /\ UNCHANGED roteiro
    \/ /\ Len(roteiro) = 3
       /\ \E f \in Falhas : deletar_usuario_buscar("c1", roteiro[1].id, f)
       /\ UNCHANGED roteiro
    \/ /\ Len(roteiro) = 3
       /\ \E f \in Falhas : deletar_usuario_deletar("c1", f)
       /\ UNCHANGED roteiro
    \/ /\ Len(roteiro) = 5
       /\ \E a \in {None, Some(-1)}, o \in Ordenadores, f \in Falhas :
             listar_usuarios(a, None, o, f)
       /\ UNCHANGED roteiro
    \/ /\ Len(roteiro) < 6
       /\ entregar
       /\ roteiro' = Append(roteiro, resposta)

SpecRoteiro == Init /\ [][NextRoteiro]_vars

(* One client's requests, one after the other, lists with every filter    *)
(* and sort key.                                                          *)
NextListar == Pedidos({"c1"}, FiltrosNome, Ordenadores)

SpecListar == Init /\ [][NextListar]_vars

(***************************************************************************)
(* Properties.                                                             *)
(***************************************************************************)
Linhas(seq) == {seq[i] : i \in DOMAIN seq}

Inativo(id) == \E r \in usuarios : r.id = id /\ r.ativo = 0

(* The rows a list request with the given active filter can return. *)
Listados(ativo) ==
    UNION { Linhas(o.res.linhas) :
              o \in listar_com_filtro("nenhuma", colunas, usuarios, ativo, None, None) }

(* C1: a deactivate on an id whose record is already inactive ends with    *)
(* not-found (404) and changes nothing, the store being up.                *)
C1_DesativarInativoNaoEncontrado ==
    [][\A c \in Clientes, id \in 1..MaxId :
          (deletar_usuario_buscar(c, id, "nenhuma") /\ Inativo(id))
              => /\ resposta'.op = "deletar"
                 /\ resposta'.status = HTTP_404_NOT_FOUND
                 /\ em_curso'[c] = Livre
                 /\ usuarios' = usuarios]_vars

(* C2: on every table, list with the active filter unset (absent or -1)    *)
(* returns every row, with 1 exactly the rows whose flag is 1, and with 0  *)
(* exactly the rest: the two are disjoint and together are the unset list. *)
C2_FiltroAtivoParticiona ==
    /\ Listados(None) = usuarios
    /\ Listados(Some(-1)) = usuarios
    /\ Listados(Some(1)) = {r \in usuarios : r.ativo = 1}
    /\ Listados(Some(0)) = usuarios \ Listados(Some(1))
    /\ Listados(Some(0)) \cap Listados(Some(1)) = {}
    /\ Listados(Some(0)) \cup Listados(Some(1)) = Listados(None)

(* C8: every outcome a handler produces is an HTTP outcome the handler     *)
(* built: no store exception leaves a handler as it was raised.            *)
C8_NenhumaExcecaoCrua ==
    resposta # SemResposta =>
        resposta.status \in {HTTP_200_OK, HTTP_201_CREATED, HTTP_204_NO_CONTENT,
                             HTTP_400_BAD_REQUEST, HTTP_404_NOT_FOUND,
                             HTTP_500_INTERNAL_SERVER_ERROR}

(* The rows the two filters of a list request select, stated apart from    *)
(* the statement the code builds.                                          *)
Selecionadas(ativo, nome) ==
    { r \in usuarios :
        /\ ativo \in {Some(0), Some(1)} => r.ativo = ativo[1]
        /\ nome = Some(<<"a", "n">>) =>
              \E i \in 1..(Len(r.nome) - 1) :
                  Lower(r.nome[i]) = "a" /\ Lower(r.nome[i + 1]) = "n" }

CrescentePorId(seq) == \A i, j \in DOMAIN seq : i < j => seq[i].id < seq[j].id

(* C3: for every sort key outside the allow-list (absent included), list   *)
(* answers as list with sort key id does under the same filters and store  *)
(* condition, which is the selected rows in increasing id and no error     *)
(* while the store is up; and the ORDER BY column of the statement is      *)
(* always one of id, nome, email.                                          *)
C3_OrdenadorForaDaListaOrdenaPorId ==
    [][(resposta = SemResposta /\ resposta'.op = "listar") =>
          LET a == resposta'.pedido[1]
              n == resposta'.pedido[2]
              o == resposta'.pedido[3]
          IN  /\ escopo'.ordem \in colunas_permitidas
              /\ (o = None \/ o[1] \notin colunas_permitidas) =>
                    /\ escopo'.ordem = "id"
                    /\ \E ref \in listar_com_filtro(escopo'.falha, colunas, usuarios,
                                                    a, n, Some("id")) :
                          /\ ref.res.exc = escopo'.exc
                          /\ ref.res.eventos = escopo'.eventos
                          /\ ref.res.linhas = resposta'.corpo
                    /\ (escopo'.falha = "nenhuma"
                          /\ (a \in {None, Some(-1)} \/ "ativo" \in colunas)) =>
                          /\ escopo'.exc = "None"
                          /\ resposta'.status = HTTP_200_OK
                          /\ Linhas(resposta'.corpo) = Selecionadas(a, n)
                          /\ Len(resposta'.corpo) = Cardinality(Selecionadas(a, n))
                          /\ CrescentePorId(resposta'.corpo)]_vars

(* C3 happens: a list asked to sort by something outside the allow-list    *)
(* answered with two rows, the one first being the later name.             *)
C3_Witness ==
    /\ resposta.op = "listar"
    /\ resposta.pedido[3] = Some("senha; DROP TABLE usuarios")
    /\ resposta.status = HTTP_200_OK
    /\ Len(resposta.corpo) = 2
    /\ TextoMenor(resposta.corpo[2].nome, resposta.corpo[1].nome)

(* C4: an update of an id that has no row ends at the existence check with *)
(* 404: the UPDATE is not reached and the table is as it was.              *)
C4_AtualizarInexistenteNaoEncontrado ==
    [][\A c \in Clientes, id \in 1..MaxId, u \in Entradas :
          (atualizar_usuario_buscar(c, id, u, "nenhuma") /\ id \notin Ids(usuarios))
              => /\ resposta'.op = "atualizar"
                 /\ resposta'.id = id
                 /\ resposta'.status = HTTP_404_NOT_FOUND
                 /\ em_curso'[c] = Livre
                 /\ escopo'.eventos = <<"commit", "close">>
                 /\ usuarios' = usuarios
                 /\ Cardinality(usuarios') = Cardinality(usuarios)]_vars

(* C4 happens: a 404 to an update while the table holds rows. *)
C4_Witness ==
    /\ resposta.op = "atualizar"
    /\ resposta.status = HTTP_404_NOT_FOUND
    /\ usuarios # {}
    /\ resposta.id \notin Ids(usuarios)

(* C5: an update of an existing id answers 200 with the row made of the    *)
(* requested id and exactly the name, email and active sent; the table     *)
(* then holds that row for the id and every other row as before.           *)
C5_AtualizarDevolveOsNovosValores ==
    [][\A c \in Clientes :
          (atualizar_usuario_atualizar(c, "nenhuma") /\ em_curso[c].id \in Ids(usuarios))
              => LET id == em_curso[c].id
                     u  == em_curso[c].entrada
                 IN  /\ resposta'.status = HTTP_200_OK
                     /\ resposta'.id = id
                     /\ resposta'.corpo =
                            <<[id |-> id, nome |-> u.nome, email |-> u.email, ativo |-> u.ativo]>>
                     /\ resposta'.corpo[1] \in usuarios'
                     /\ {r \in usuarios' : r.id # id} = {r \in usuarios : r.id # id}
                     /\ \A r \in usuarios' : r.id = id => r = resposta'.corpo[1]]_vars

(* C5 happens: a 200 to an update that changed a row, beside another row. *)
C5_Witness ==
    /\ resposta.op = "atualizar"
    /\ resposta.status = HTTP_200_OK
    /\ resposta.corpo[1].id = 1
    /\ resposta.corpo[1].ativo = 2
    /\ \E r \in usuarios : r.id = 2 /\ r.ativo = 1

IdsUnicos(tabela) == \A r1, r2 \in tabela : r1.id = r2.id => r1 = r2

(* C6: no two rows share an id; no step removes a row or an id; and the id *)
(* a create answers with was held by no row before that create and is held *)
(* by the new row after it.                                                *)
C6_IdsUnicosNuncaReusados ==
    [][/\ IdsUnicos(usuarios')
       /\ Ids(usuarios) \subseteq Ids(usuarios')
       /\ Cardinality(usuarios) <= Cardinality(usuarios')
       /\ (resposta = SemResposta /\ resposta'.op = "criar"
              /\ resposta'.status = HTTP_201_CREATED) =>
             /\ resposta'.id \notin Ids(usuarios)
             /\ resposta'.id > 0
             /\ usuarios' = usuarios \cup {resposta'.corpo[1]}
             /\ resposta'.corpo[1].id = resposta'.id]_vars

(* C6 happens: a second create answered while the first row, created       *)
(* active under the name Ana, stands deactivated.                          *)
C6_Witness ==
    /\ resposta.op = "criar"
    /\ resposta.status = HTTP_201_CREATED
    /\ resposta.id = 2
    /\ \E r \in usuarios : r.id = 1 /\ r.nome = Ana /\ r.ativo = 0

(* Steps of the scenario that met no store failure. *)
RoteiroSemFalha(k) ==
    /\ Len(roteiro) >= k
    /\ roteiro[1].status = HTTP_201_CREATED
    /\ roteiro[2].status = HTTP_201_CREATED
    /\ \A i \in 3..k : roteiro[i].status # ExcecaoNaoTratada

C10_SemFalhaDeConsistencia ==
    /\ resposta.detalhe # "Falha ao atualizar usuario no banco de dados"
    /\ \A c \in Clientes :
          em_curso[c].op = "atualizar" => em_curso[c].id \in Ids(usuarios)

(* C10 happens: an update answered 200 on a row while a delete of the same *)
(* id is past its existence check.                                         *)
C10_Witness ==
    /\ resposta.op = "atualizar"
    /\ resposta.status = HTTP_200_OK
    /\ \E c \in Clientes : em_curso[c].op = "deletar" /\ em_curso[c].id = resposta.id
=============================================================================
